---------------------------- MODULE Spec2Model ----------------------------
(***************************************************************************)
(* A model of mongo-copy's copy engine: copy_collection and copy_database  *)
(* (src/src/mongo.rs), and the interactive flow that calls them            *)
(* (src/src/main.rs, src/src/ui.rs).                                       *)
(*                                                                         *)
(* The MongoDB server and driver are the environment.  They are modelled   *)
(* by what the driver documents:                                           *)
(*   - find().limit(n): n > 0 caps the cursor at n documents, n = 0 is     *)
(*     "no limit", n < 0 asks for one batch of at most |n| documents;      *)
(*   - insert_many() is ordered and not atomic: when it fails, the         *)
(*     documents before the failing one stay written;                      *)
(*   - every driver call may fail (connectivity).                          *)
(***************************************************************************)
EXTENDS Integers, Sequences, FiniteSets, TLC

(***************************************************************************)
(* Bounds of the model.                                                    *)
(***************************************************************************)
\* Stands for BATCH_SIZE = 1000 (src/src/mongo.rs:134), scaled down.
BATCH_SIZE == 2
\* The largest number of documents in a source collection.
MaxDocs == 5
\* The largest number of collections in the source database.
MaxColls == 3
\* The largest number of documents in a collection of a copied database.
MaxDbDocs == 3
\* Stands for the 64 bits of the limit (u64, cast to i64), scaled down.
LimitBits == 3
\* The interactive flow: the largest number of collections in the source
\* database, and of documents in one of them.
MaxUiColls == 2
MaxUiDocs == 2

VARIABLES
    catalog,    \* list_collection_names() of the source database, in order
    srcCount,   \* srcCount[c]: the number of documents of source collection c
    dest,       \* dest[c]: the documents of destination collection c, in order
    pc,         \* the program's position
    caller,     \* who called copy_collection
    ccArgs,     \* copy_collection's arguments: [src, dst, limit]
    cursorLen,  \* the number of documents the open cursor yields in all
    cursorPos,  \* the number of documents the cursor has yielded
    count,      \* copy_collection's local `count`
    batch,      \* copy_collection's local `batch`
    ret,        \* copy_collection's return value: <<>>, <<"Ok", n>>, <<"Err", e>>
    reads,      \* history: documents read from the source cursors
    inserts,    \* history: the insert_many calls issued, in order
    calls,      \* history: the copy_collection invocations, in order
    errLog,     \* history: the error! lines written
    cdIdx,      \* copy_database's loop index into `collections`
    cdRet,      \* copy_database's return value: <<>>, <<"Ok">>, <<"Err", e>>
    selected,   \* handle_collection_copy's `collections` (the names selected)
    hcIdx,      \* handle_collection_copy's loop index into `collections`
    destColl,   \* handle_collection_copy's `dest_coll`
    hcLimit,    \* handle_collection_copy's `limit`
    hcRet,      \* handle_collection_copy's return value
    lastCount,  \* history: the last get_collection_count call and its use
    dbCatalogs, \* dbCatalogs[d]: list_collection_names() of source database d
    databases,  \* handle_database_copy's `databases` (the names selected)
    hdIdx,      \* handle_database_copy's loop index into `databases`
    hdRet,      \* handle_database_copy's return value
    lastConfirm,\* history: the last confirm_operation prompt and its answer
    ticked      \* history: the catalog names the user ticked in select_collections

vars == <<catalog, srcCount, dest, pc, caller, ccArgs, cursorLen, cursorPos,
          count, batch, ret, reads, inserts, calls, errLog, cdIdx, cdRet,
          selected, hcIdx, destColl, hcLimit, hcRet, lastCount,
          dbCatalogs, databases, hdIdx, hdRet, lastConfirm, ticked>>

ccLocals == <<cursorLen, cursorPos, count, batch>>
cdVars == <<cdIdx, cdRet>>
hcVars == <<selected, hcIdx, destColl, hcLimit, hcRet, lastCount>>
hdVars == <<dbCatalogs, databases, hdIdx, hdRet>>

(***************************************************************************)
(* Values.                                                                 *)
(***************************************************************************)
\* Collection names are token sequences, so that a name can hold " (".
Names == {<<"a">>, <<"b">>, <<"a", " (", "b">>}

\* The source's databases, in list_database_names() order, and the
\* collection names each may hold (a name stands for the collection of one
\* database).
DbNames == {"d1", "d2"}
DbOrder == <<"d1", "d2">>
DbCollections(d) == IF d = "d1" THEN {<<"a">>, <<"a", " (", "b">>} ELSE {<<"b">>}

\* Option<u64>
None == <<>>
Some(v) == <<v>>

\* The documents of source collection c, in cursor order.
Doc(c, i) == <<c, i>>
SourceDocs(c, n) == [i \in 1..n |-> Doc(c, i)]

\* A driver error as anyhow::Error: its kind and the context chain attached
\* to it.  e.into() and `?` attach no context.
DriverError(kind) == [kind |-> kind, context |-> <<>>]

Ok(n) == <<"Ok", n>>
Err(e) == <<"Err", e>>

Min(a, b) == IF a <= b THEN a ELSE b
Abs(a) == IF a < 0 THEN 0 - a ELSE a

RECURSIVE Pow2(_)
Pow2(n) == IF n = 0 THEN 1 ELSE 2 * Pow2(n - 1)

RECURSIVE SumSizes(_)
SumSizes(s) == IF s = <<>> THEN 0 ELSE Head(s) + SumSizes(Tail(s))

Take(s, k) == SubSeq(s, 1, k)

\* The injective sequences over S of length at most n.
DistinctSeqs(S, n) ==
    UNION {{s \in [1..k -> S] : \A i, j \in 1..k : i # j => s[i] # s[j]} : k \in 0..n}

(***************************************************************************)
(* The driver.                                                             *)
(***************************************************************************)
\* `limit_val as i64`: the two's complement reading of the unsigned value.
AsI64(v) == IF v >= Pow2(LimitBits - 1) THEN v - Pow2(LimitBits) ELSE v

\* The u64 values a caller can pass (the one whose i64 reading has no
\* absolute value is left out).
LimitValues == (0..(Pow2(LimitBits) - 1)) \ {Pow2(LimitBits - 1)}

\* find(doc!{}) with an optional limit over a collection of n documents: the
\* number of documents the cursor yields.
FindLen(n, limit) ==
    IF limit = None THEN n
    ELSE LET l == AsI64(limit[1]) IN
         IF l = 0 THEN n ELSE Min(Abs(l), n)

\* The position in batch b of the first document whose key is already in the
\* collection (0: none).
FirstDup(existing, b) ==
    LET dups == {i \in 1..Len(b) : \E j \in 1..Len(existing) : existing[j] = b[i]}
    IN IF dups = {} THEN 0 ELSE CHOOSE i \in dups : \A j \in dups : i <= j

\* insert_many(&batch) on a collection: whether it succeeds, and how many
\* leading documents of the batch are written.
InsertOutcomes(existing, b) ==
    LET d == FirstDup(existing, b) IN
    IF d = 0
    THEN {[ok |-> TRUE, written |-> Len(b)]}
         \cup {[ok |-> FALSE, written |-> k] : k \in 0..(Len(b) - 1)}
    ELSE {[ok |-> FALSE, written |-> k] : k \in 0..(d - 1)}

(***************************************************************************)
(* copy_collection                                                          *)
(***************************************************************************)
\* A slip in the threshold: the flush comes one document late.
BatchFull_Late(b) == Len(b) > BATCH_SIZE

\* batch.len() >= BATCH_SIZE
BatchFull(b) == Len(b) >= BATCH_SIZE

\* The call: the locals are not yet initialised, the call is recorded.
Call(who, src, dst, limit) ==
    /\ caller' = who
    /\ ccArgs' = [src |-> src, dst |-> dst, limit |-> limit]
    /\ calls' = Append(calls, [src |-> src, dst |-> dst, limit |-> limit])
    /\ ret' = <<>>
    /\ cursorLen' = 0
    /\ cursorPos' = 0
    /\ count' = 0
    /\ batch' = <<>>
    /\ pc' = "cc_open"

\* find(doc!{}) [.limit(limit_val as i64)] .await?
OpenCursor ==
    /\ pc = "cc_open"
    /\ \E ok \in BOOLEAN :
        IF ok
        THEN /\ cursorLen' = FindLen(srcCount[ccArgs.src], ccArgs.limit)
             /\ cursorPos' = 0
             /\ count' = 0
             /\ batch' = <<>>
             /\ pc' = "cc_next"
             /\ ret' = ret
        ELSE /\ ret' = Err(DriverError("CursorError"))
             /\ pc' = "cc_ret"
             /\ UNCHANGED ccLocals
    /\ UNCHANGED <<hdVars, lastConfirm, ticked>>
    /\ UNCHANGED <<catalog, srcCount, dest, caller, ccArgs, reads, inserts,
                   calls, errLog, cdVars, hcVars>>

\* while let Some(doc) = cursor.try_next().await? { batch.push(doc); count += 1; ... }
TryNext ==
    /\ pc = "cc_next"
    /\ \E ok \in BOOLEAN :
        IF ~ok
        THEN /\ ret' = Err(DriverError("CursorError"))
             /\ pc' = "cc_ret"
             /\ UNCHANGED <<cursorPos, count, batch, reads>>
        ELSE IF cursorPos < cursorLen
        THEN /\ cursorPos' = cursorPos + 1
             /\ batch' = Append(batch, Doc(ccArgs.src, cursorPos + 1))
             /\ count' = count + 1
             /\ reads' = reads + 1
             /\ pc' = IF BatchFull(batch') THEN "cc_insert" ELSE "cc_next"
             /\ ret' = ret
        ELSE /\ pc' = "cc_final"
             /\ UNCHANGED <<cursorPos, count, batch, reads, ret>>
    /\ UNCHANGED <<hdVars, lastConfirm, ticked>>
    /\ UNCHANGED <<catalog, srcCount, dest, caller, ccArgs, cursorLen, inserts,
                   calls, errLog, cdVars, hcVars>>

\* dest_collection.insert_many(&batch): the documents written and the record
\* of the call.
DoInsert(o) ==
    /\ dest' = [dest EXCEPT ![ccArgs.dst] = @ \o Take(batch, o.written)]
    /\ inserts' = Append(inserts, [coll |-> ccArgs.dst, size |-> Len(batch),
                                   ok |-> o.ok, written |-> o.written])

\* A slip in the error arm: the failure is logged and the loop goes on.
InsertBatch_Continue ==
    /\ pc = "cc_insert"
    /\ \E o \in InsertOutcomes(dest[ccArgs.dst], batch) :
        /\ DoInsert(o)
        /\ batch' = <<>>
        /\ pc' = "cc_next"
        /\ ret' = ret
        /\ errLog' = IF o.ok THEN errLog
                     ELSE Append(errLog, [site |-> "insert_batch", at |-> count])
    /\ UNCHANGED <<hdVars, lastConfirm, ticked>>
    /\ UNCHANGED <<catalog, srcCount, caller, ccArgs, cursorLen, cursorPos,
                   count, reads, calls, cdVars, hcVars>>

\* A slip in the success arm: batch.clear() is forgotten.
InsertBatch_KeepBatch ==
    /\ pc = "cc_insert"
    /\ \E o \in InsertOutcomes(dest[ccArgs.dst], batch) :
        /\ DoInsert(o)
        /\ batch' = batch
        /\ IF o.ok
           THEN /\ pc' = "cc_next"
                /\ UNCHANGED <<ret, errLog>>
           ELSE /\ errLog' = Append(errLog, [site |-> "insert_batch", at |-> count])
                /\ ret' = Err(DriverError("InsertError"))
                /\ pc' = "cc_ret"
    /\ UNCHANGED <<hdVars, lastConfirm, ticked>>
    /\ UNCHANGED <<catalog, srcCount, caller, ccArgs, cursorLen, cursorPos,
                   count, reads, calls, cdVars, hcVars>>

\* The insert of a full batch inside the loop.
InsertBatch ==
    /\ pc = "cc_insert"
    /\ \E o \in InsertOutcomes(dest[ccArgs.dst], batch) :
        /\ DoInsert(o)
        /\ IF o.ok
           THEN /\ batch' = <<>>
                /\ pc' = "cc_next"
                /\ UNCHANGED <<ret, errLog>>
           ELSE /\ errLog' = Append(errLog, [site |-> "insert_batch", at |-> count])
                /\ ret' = Err(DriverError("InsertError"))
                /\ pc' = "cc_ret"
                /\ batch' = batch
    /\ UNCHANGED <<hdVars, lastConfirm, ticked>>
    /\ UNCHANGED <<catalog, srcCount, caller, ccArgs, cursorLen, cursorPos,
                   count, reads, calls, cdVars, hcVars>>

\* A slip after the loop: the remaining batch is never inserted.
FinalFlush_Skip ==
    /\ pc = "cc_final"
    /\ ret' = Ok(count)
    /\ pc' = "cc_ret"
    /\ UNCHANGED <<hdVars, lastConfirm, ticked>>
    /\ UNCHANGED <<catalog, srcCount, dest, caller, ccArgs, ccLocals, reads,
                   inserts, calls, errLog, cdVars, hcVars>>

\* After the loop: if !batch.is_empty() { insert_many } ; Ok(count)
FinalFlush ==
    /\ pc = "cc_final"
    /\ IF batch # <<>>
       THEN \E o \in InsertOutcomes(dest[ccArgs.dst], batch) :
            /\ DoInsert(o)
            /\ IF o.ok
               THEN /\ ret' = Ok(count)
                    /\ errLog' = errLog
               ELSE /\ errLog' = Append(errLog, [site |-> "insert_final", at |-> count])
                    /\ ret' = Err(DriverError("InsertError"))
       ELSE /\ ret' = Ok(count)
            /\ UNCHANGED <<dest, inserts, errLog>>
    /\ pc' = "cc_ret"
    /\ UNCHANGED <<hdVars, lastConfirm, ticked>>
    /\ UNCHANGED <<catalog, srcCount, caller, ccArgs, ccLocals, reads, calls,
                   cdVars, hcVars>>

CopyCollection == OpenCursor \/ TryNext \/ InsertBatch \/ FinalFlush

(***************************************************************************)
(* One call of copy_collection with any arguments.                         *)
(***************************************************************************)
InitColl ==
    /\ \E c \in Names, n \in 0..MaxDocs, l \in {None} \cup {Some(v) : v \in LimitValues} :
        /\ catalog = <<c>>
        /\ srcCount = [x \in Names |-> IF x = c THEN n ELSE 0]
        /\ ccArgs = [src |-> c, dst |-> c, limit |-> l]
        /\ calls = <<[src |-> c, dst |-> c, limit |-> l]>>
    /\ dest = [x \in Names |-> <<>>]
    /\ pc = "cc_open"
    /\ caller = "top"
    /\ cursorLen = 0
    /\ cursorPos = 0
    /\ count = 0
    /\ batch = <<>>
    /\ ret = <<>>
    /\ reads = 0
    /\ inserts = <<>>
    /\ errLog = <<>>
    /\ cdIdx = 0
    /\ cdRet = <<>>
    /\ selected = <<>>
    /\ hcIdx = 0
    /\ destColl = <<>>
    /\ hcLimit = None
    /\ hcRet = <<>>
    /\ lastCount = <<>>
    /\ dbCatalogs = [d \in DbNames |-> <<>>]
    /\ databases = <<>>
    /\ hdIdx = 0
    /\ hdRet = <<>>
    /\ lastConfirm = <<>>
    /\ ticked = <<>>

NextColl == CopyCollection

SpecColl == InitColl /\ [][NextColl]_vars

(***************************************************************************)
(* The same copy_collection call made again after it succeeded, against    *)
(* the destination the earlier run left.                                   *)
(***************************************************************************)
\* The largest number of runs of the same copy.
MaxRuns == 2

Rerun ==
    /\ pc = "cc_ret"
    /\ caller = "top"
    /\ ret # <<>>
    /\ ret[1] = "Ok"
    /\ Len(calls) < MaxRuns
    /\ Call("top", ccArgs.src, ccArgs.dst, ccArgs.limit)
    /\ UNCHANGED <<hdVars, lastConfirm, ticked>>
    /\ UNCHANGED <<catalog, srcCount, dest, reads, inserts, errLog, cdVars,
                   hcVars>>

NextRerun == CopyCollection \/ Rerun

SpecRerun == InitColl /\ [][NextRerun]_vars

(***************************************************************************)
(* copy_database                                                            *)
(***************************************************************************)
\* A slip in the arguments: a limit is passed.
CdCallArgs_Limited(c) == [src |-> c, dst |-> c, limit |-> Some(1)]

\* The arguments of the call for collection c:
\* copy_collection(source, dest, source_db, collection, dest_db, collection, None)
CdCallArgs(c) == [src |-> c, dst |-> c, limit |-> None]

\* let collections = source.list_collections(source_db).await?;
CdList ==
    /\ pc = "cd_list"
    /\ \E ok \in BOOLEAN :
        IF ok
        THEN /\ cdIdx' = 1
             /\ pc' = "cd_loop"
             /\ cdRet' = cdRet
        ELSE /\ cdRet' = Err(DriverError("CatalogError"))
             /\ pc' = "cd_ret"
             /\ cdIdx' = cdIdx
    /\ UNCHANGED <<hdVars, lastConfirm, ticked>>
    /\ UNCHANGED <<catalog, srcCount, dest, caller, ccArgs, ccLocals, ret,
                   reads, inserts, calls, errLog, hcVars>>

\* for (idx, collection) in collections.iter().enumerate() { copy_collection(...) }
\* and, after the last one, Ok(())
CdLoop ==
    /\ pc = "cd_loop"
    /\ IF cdIdx <= Len(catalog)
       THEN LET a == CdCallArgs(catalog[cdIdx]) IN
            /\ Call("copy_database", a.src, a.dst, a.limit)
            /\ cdRet' = cdRet
       ELSE /\ cdRet' = <<"Ok">>
            /\ pc' = "cd_ret"
            /\ UNCHANGED <<caller, ccArgs, ccLocals, ret, calls>>
    /\ UNCHANGED <<hdVars, lastConfirm, ticked>>
    /\ UNCHANGED <<catalog, srcCount, dest, reads, inserts, errLog, cdIdx, hcVars>>

\* match copy_collection(...).await { Ok(count) => ..., Err(e) => return Err(e) }
CdResult ==
    /\ pc = "cc_ret"
    /\ caller = "copy_database"
    /\ IF ret[1] = "Ok"
       THEN /\ cdIdx' = cdIdx + 1
            /\ pc' = "cd_loop"
            /\ UNCHANGED <<cdRet, errLog>>
       ELSE /\ errLog' = Append(errLog, [site |-> "copy_database",
                                         coll |-> catalog[cdIdx]])
            /\ cdRet' = Err(ret[2])
            /\ pc' = "cd_ret"
            /\ cdIdx' = cdIdx
    /\ UNCHANGED <<hdVars, lastConfirm, ticked>>
    /\ UNCHANGED <<catalog, srcCount, dest, caller, ccArgs, ccLocals, ret,
                   reads, inserts, calls, hcVars>>

CopyDatabase == CdList \/ CdLoop \/ CdResult

(***************************************************************************)
(* One call of copy_database over any catalog, into an empty destination.  *)
(***************************************************************************)
InitDb ==
    /\ catalog \in DistinctSeqs(Names, MaxColls)
    /\ srcCount \in [Names -> 0..MaxDbDocs]
    /\ \A c \in Names : (\A i \in 1..Len(catalog) : catalog[i] # c) => srcCount[c] = 0
    /\ dest = [x \in Names |-> <<>>]
    /\ pc = "cd_list"
    /\ caller = "top"
    /\ ccArgs = [src |-> <<"a">>, dst |-> <<"a">>, limit |-> None]
    /\ cursorLen = 0
    /\ cursorPos = 0
    /\ count = 0
    /\ batch = <<>>
    /\ ret = <<>>
    /\ reads = 0
    /\ inserts = <<>>
    /\ calls = <<>>
    /\ errLog = <<>>
    /\ cdIdx = 0
    /\ cdRet = <<>>
    /\ selected = <<>>
    /\ hcIdx = 0
    /\ destColl = <<>>
    /\ hcLimit = None
    /\ hcRet = <<>>
    /\ lastCount = <<>>
    /\ dbCatalogs = [d \in DbNames |-> <<>>]
    /\ databases = <<>>
    /\ hdIdx = 0
    /\ hdRet = <<>>
    /\ lastConfirm = <<>>
    /\ ticked = <<>>

NextDb == CopyDatabase \/ CopyCollection

SpecDb == InitDb /\ [][NextDb]_vars

(***************************************************************************)
(* MongoConnection::get_collection_count, and the prompts                  *)
(***************************************************************************)
\* estimated_document_count(): Ok(count), or the driver's error (after a
\* warn! line).  `ok` is whether the driver call succeeds.
GetCollectionCount(c, ok) ==
    IF ok THEN Ok(srcCount[c]) ELSE Err(DriverError("CountError"))

\* Result::unwrap_or
UnwrapOr(r, d) == IF r[1] = "Ok" THEN r[2] ELSE d

\* format!("{} ({} documents)", coll, count)
Label(coll, n) == coll \o <<" (", ToString(n), " documents)">>

\* s.split(" (").next().unwrap_or(s): the text before the first " (".
SplitName(s) ==
    LET at == {i \in 1..Len(s) : s[i] = " ("}
    IN IF at = {} THEN s
       ELSE Take(s, (CHOOSE i \in at : \A j \in at : i <= j) - 1)

\* The members of a set of positions, in ascending order.
RECURSIVE Ascending(_)
Ascending(S) ==
    IF S = {} THEN <<>>
    ELSE LET m == CHOOSE i \in S : \A j \in S : i <= j
         IN <<m>> \o Ascending(S \ {m})

\* What the user may type as destination collection for source name c.
DestNames(c) == {c, <<"b">>}

\* What the user may answer to get_copy_limit's prompts: cancel, copy all,
\* text that is no number, or a number.
LimitAnswers ==
    {<<"cancel">>, <<"all">>, <<"invalid">>}
    \cup {<<"number", v>> : v \in {0, 1, Pow2(LimitBits) - 1}}

PromptError == [kind |-> "PromptError", context |-> <<>>]

(***************************************************************************)
(* handle_collection_copy                                                   *)
(***************************************************************************)
HcReturn(r) ==
    /\ hcRet' = r
    /\ pc' = "hc_ret"

\* let source_db = select_source_database(source).await?;
HcSelectDatabase ==
    /\ pc = "hc_start"
    /\ \E o \in {"ok", "list_failed", "cancel"} :
        IF o = "ok"
        THEN /\ pc' = "hc_select"
             /\ hcRet' = hcRet
        ELSE HcReturn(Err(IF o = "cancel" THEN PromptError
                          ELSE DriverError("CatalogError")))
    /\ UNCHANGED <<hdVars, lastConfirm, ticked>>
    /\ UNCHANGED <<catalog, srcCount, dest, caller, ccArgs, ccLocals, ret,
                   reads, inserts, calls, errLog, cdVars, selected, hcIdx,
                   destColl, hcLimit, lastCount>>

\* let collections = select_collections(source, &source_db).await?;
\* listOk: list_collections succeeds; countOk: the positions whose count
\* succeeds; answer: <<"pick", the positions the user ticks>> or <<"cancel">>.
SelectCollections(listOk, countOk, answer) ==
    IF ~listOk THEN Err(DriverError("CatalogError"))
    ELSE IF catalog = <<>> THEN Err([kind |-> "NoCollections", context |-> <<>>])
    ELSE IF answer[1] = "cancel" THEN Err(PromptError)
    ELSE LET options == [i \in 1..Len(catalog) |->
                 Label(catalog[i],
                       UnwrapOr(GetCollectionCount(catalog[i], i \in countOk), 0))]
             picked == Ascending(answer[2])
         IN Ok([k \in 1..Len(picked) |-> SplitName(options[picked[k]])])

HcSelectCollections ==
    /\ pc = "hc_select"
    /\ \E listOk \in BOOLEAN, countOk \in SUBSET (1..Len(catalog)),
          answer \in {<<"cancel">>} \cup {<<"pick", S>> : S \in SUBSET (1..Len(catalog))} :
        LET r == SelectCollections(listOk, countOk, answer)
            last == Len(catalog)
        IN /\ IF r[1] = "Ok"
              THEN /\ selected' = r[2]
                   /\ ticked' = [k \in 1..Cardinality(answer[2]) |->
                                    catalog[Ascending(answer[2])[k]]]
                   /\ pc' = "hc_destdb"
                   /\ hcRet' = hcRet
              ELSE /\ HcReturn(r)
                   /\ UNCHANGED <<selected, ticked>>
           /\ lastCount' =
                IF listOk /\ last > 0
                THEN [by |-> "select_collections", ok |-> last \in countOk,
                      used |-> Some(UnwrapOr(GetCollectionCount(catalog[last],
                                                               last \in countOk), 0))]
                ELSE lastCount
    /\ UNCHANGED <<hdVars, lastConfirm>>
    /\ UNCHANGED <<catalog, srcCount, dest, caller, ccArgs, ccLocals, ret,
                   reads, inserts, calls, errLog, cdVars, hcIdx, destColl,
                   hcLimit>>

\* let dest_db = get_destination_database(&source_db)?;
HcDestinationDatabase ==
    /\ pc = "hc_destdb"
    /\ \E o \in {"ok", "cancel"} :
        IF o = "ok"
        THEN /\ hcIdx' = 1
             /\ pc' = "hc_loop"
             /\ hcRet' = hcRet
        ELSE /\ HcReturn(Err(PromptError))
             /\ hcIdx' = hcIdx
    /\ UNCHANGED <<hdVars, lastConfirm, ticked>>
    /\ UNCHANGED <<catalog, srcCount, dest, caller, ccArgs, ccLocals, ret,
                   reads, inserts, calls, errLog, cdVars, selected, destColl,
                   hcLimit, lastCount>>

\* for source_coll in &collections {
\*     let dest_coll = get_destination_collection(source_coll)?;
\* and, after the last one, Ok(())
HcDestinationCollection ==
    /\ pc = "hc_loop"
    /\ IF hcIdx <= Len(selected)
       THEN \E o \in {<<"cancel">>} \cup {<<"name", d>> : d \in DestNames(selected[hcIdx])} :
            IF o[1] = "name"
            THEN /\ destColl' = o[2]
                 /\ pc' = "hc_limit"
                 /\ hcRet' = hcRet
            ELSE /\ HcReturn(Err(PromptError))
                 /\ destColl' = destColl
       ELSE /\ HcReturn(<<"Ok">>)
            /\ destColl' = destColl
    /\ UNCHANGED <<hdVars, lastConfirm, ticked>>
    /\ UNCHANGED <<catalog, srcCount, dest, caller, ccArgs, ccLocals, ret,
                   reads, inserts, calls, errLog, cdVars, selected, hcIdx,
                   hcLimit, lastCount>>

\* get_copy_limit(conn, database, collection): the count is fetched with `?`,
\* then the prompts are answered.
GetCopyLimit(c, countOk, answer) ==
    LET n == GetCollectionCount(c, countOk) IN
    IF n[1] = "Err" THEN n
    ELSE IF answer[1] = "cancel" THEN Err(PromptError)
    ELSE IF answer[1] = "all" THEN Ok(None)
    ELSE IF answer[1] = "invalid" THEN Err([kind |-> "InvalidNumber", context |-> <<>>])
    ELSE Ok(Some(answer[2]))

\* let limit = get_copy_limit(source, &source_db, source_coll).await?;
HcCopyLimit ==
    /\ pc = "hc_limit"
    /\ \E countOk \in BOOLEAN, answer \in LimitAnswers :
        LET r == GetCopyLimit(selected[hcIdx], countOk, answer)
        IN /\ IF r[1] = "Ok"
              THEN /\ hcLimit' = r[2]
                   /\ pc' = "hc_confirm"
                   /\ hcRet' = hcRet
              ELSE /\ HcReturn(r)
                   /\ hcLimit' = hcLimit
           /\ lastCount' = [by |-> "get_copy_limit", ok |-> countOk,
                            used |-> IF countOk THEN Some(srcCount[selected[hcIdx]])
                                     ELSE None]
    /\ UNCHANGED <<hdVars, lastConfirm, ticked>>
    /\ UNCHANGED <<catalog, srcCount, dest, caller, ccArgs, ccLocals, ret,
                   reads, inserts, calls, errLog, cdVars, selected, hcIdx,
                   destColl>>

\* if !confirm_operation(...)? { continue; }  copy_collection(...)
HcConfirm ==
    /\ pc = "hc_confirm"
    /\ \E o \in {"yes", "no", "cancel"} :
        /\ lastConfirm' = [by |-> "handle_collection_copy", item |-> hcIdx,
                           answer |-> o]
        /\ IF o = "yes"
           THEN /\ Call("handle_collection_copy", selected[hcIdx], destColl, hcLimit)
                /\ UNCHANGED <<hcIdx, hcRet>>
           ELSE IF o = "no"
           THEN /\ hcIdx' = hcIdx + 1
                /\ pc' = "hc_loop"
                /\ UNCHANGED <<caller, ccArgs, ccLocals, ret, calls, hcRet>>
           ELSE /\ HcReturn(Err(PromptError))
                /\ UNCHANGED <<caller, ccArgs, ccLocals, ret, calls, hcIdx>>
    /\ UNCHANGED <<hdVars, ticked>>
    /\ UNCHANGED <<catalog, srcCount, dest, reads, inserts, errLog, cdVars,
                   selected, destColl, hcLimit, lastCount>>

\* A slip in the error arm: the failure is logged and the loop goes on.
HcResult_Continue ==
    /\ pc = "cc_ret"
    /\ caller = "handle_collection_copy"
    /\ hcIdx' = hcIdx + 1
    /\ pc' = "hc_loop"
    /\ hcRet' = hcRet
    /\ errLog' = IF ret[1] = "Ok" THEN errLog
                 ELSE Append(errLog, [site |-> "handle_collection_copy",
                                      coll |-> selected[hcIdx]])
    /\ UNCHANGED <<hdVars, lastConfirm, ticked>>
    /\ UNCHANGED <<catalog, srcCount, dest, caller, ccArgs, ccLocals, ret,
                   reads, inserts, calls, cdVars, selected, destColl, hcLimit,
                   lastCount>>

\* match copy_collection(...).await { Ok(count) => ..., Err(e) => return Err(e) }
HcResult ==
    /\ pc = "cc_ret"
    /\ caller = "handle_collection_copy"
    /\ IF ret[1] = "Ok"
       THEN /\ hcIdx' = hcIdx + 1
            /\ pc' = "hc_loop"
            /\ UNCHANGED <<hcRet, errLog>>
       ELSE /\ errLog' = Append(errLog, [site |-> "handle_collection_copy",
                                         coll |-> selected[hcIdx]])
            /\ HcReturn(Err(ret[2]))
            /\ hcIdx' = hcIdx
    /\ UNCHANGED <<hdVars, lastConfirm, ticked>>
    /\ UNCHANGED <<catalog, srcCount, dest, caller, ccArgs, ccLocals, ret,
                   reads, inserts, calls, cdVars, selected, destColl, hcLimit,
                   lastCount>>

HandleCollectionCopy ==
    \/ HcSelectDatabase
    \/ HcSelectCollections
    \/ HcDestinationDatabase
    \/ HcDestinationCollection
    \/ HcCopyLimit
    \/ HcConfirm
    \/ HcResult

(***************************************************************************)
(* One run of handle_collection_copy into an empty destination.            *)
(***************************************************************************)
InitUi ==
    /\ catalog \in DistinctSeqs(Names, MaxUiColls)
    /\ srcCount \in [Names -> 0..MaxUiDocs]
    /\ \A c \in Names : (\A i \in 1..Len(catalog) : catalog[i] # c) => srcCount[c] = 0
    /\ dest = [x \in Names |-> <<>>]
    /\ pc = "hc_start"
    /\ caller = "top"
    /\ ccArgs = [src |-> <<"a">>, dst |-> <<"a">>, limit |-> None]
    /\ cursorLen = 0
    /\ cursorPos = 0
    /\ count = 0
    /\ batch = <<>>
    /\ ret = <<>>
    /\ reads = 0
    /\ inserts = <<>>
    /\ calls = <<>>
    /\ errLog = <<>>
    /\ cdIdx = 0
    /\ cdRet = <<>>
    /\ selected = <<>>
    /\ hcIdx = 0
    /\ destColl = <<>>
    /\ hcLimit = None
    /\ hcRet = <<>>
    /\ lastCount = <<>>
    /\ dbCatalogs = [d \in DbNames |-> <<>>]
    /\ databases = <<>>
    /\ hdIdx = 0
    /\ hdRet = <<>>
    /\ lastConfirm = <<>>
    /\ ticked = <<>>

NextUi == HandleCollectionCopy \/ CopyCollection

SpecUi == InitUi /\ [][NextUi]_vars

(***************************************************************************)
(* handle_database_copy                                                     *)
(***************************************************************************)
HdReturn(r) ==
    /\ hdRet' = r
    /\ pc' = "hd_ret"

\* let databases = select_databases(source).await?;
HdSelectDatabases ==
    /\ pc = "hd_start"
    /\ \E o \in {<<"list_failed">>, <<"cancel">>}
                \cup {<<"pick", S>> : S \in SUBSET (1..Len(DbOrder))} :
        IF o[1] = "pick"
        THEN /\ databases' = [k \in 1..Cardinality(o[2]) |-> DbOrder[Ascending(o[2])[k]]]
             /\ hdIdx' = 1
             /\ pc' = "hd_loop"
             /\ hdRet' = hdRet
        ELSE /\ HdReturn(Err(IF o[1] = "cancel" THEN PromptError
                              ELSE DriverError("CatalogError")))
             /\ UNCHANGED <<databases, hdIdx>>
    /\ UNCHANGED <<catalog, srcCount, dest, caller, ccArgs, ccLocals, ret,
                   reads, inserts, calls, errLog, cdVars, hcVars, dbCatalogs,
                   lastConfirm, ticked>>

\* for source_db in databases {
\*     let dest_db = get_destination_database(&source_db)?;
\* and, after the last one, Ok(())
HdDestinationDatabase ==
    /\ pc = "hd_loop"
    /\ IF hdIdx <= Len(databases)
       THEN \E o \in {"ok", "cancel"} :
            IF o = "ok"
            THEN /\ pc' = "hd_confirm"
                 /\ hdRet' = hdRet
            ELSE HdReturn(Err(PromptError))
       ELSE HdReturn(<<"Ok">>)
    /\ UNCHANGED <<catalog, srcCount, dest, caller, ccArgs, ccLocals, ret,
                   reads, inserts, calls, errLog, cdVars, hcVars, dbCatalogs,
                   databases, hdIdx, lastConfirm, ticked>>

\* if !confirm_operation(...)? { continue; }  copy_database(source, dest, ...)
\* The call binds `catalog` to the collections of the database copied.
HdConfirm ==
    /\ pc = "hd_confirm"
    /\ \E o \in {"yes", "no", "cancel"} :
        /\ lastConfirm' = [by |-> "handle_database_copy", item |-> hdIdx,
                           answer |-> o]
        /\ IF o = "yes"
           THEN /\ catalog' = dbCatalogs[databases[hdIdx]]
                /\ cdIdx' = 0
                /\ cdRet' = <<>>
                /\ pc' = "cd_list"
                /\ UNCHANGED <<hdIdx, hdRet>>
           ELSE IF o = "no"
           THEN /\ hdIdx' = hdIdx + 1
                /\ pc' = "hd_loop"
                /\ UNCHANGED <<catalog, cdVars, hdRet>>
           ELSE /\ HdReturn(Err(PromptError))
                /\ UNCHANGED <<catalog, cdVars, hdIdx>>
    /\ UNCHANGED <<srcCount, dest, caller, ccArgs, ccLocals, ret, reads,
                   inserts, calls, errLog, hcVars, dbCatalogs, databases,
                   ticked>>

\* match copy_database(...).await { Ok(_) => ..., Err(e) => return Err(e) }
HdResult ==
    /\ pc = "cd_ret"
    /\ hdIdx >= 1
    /\ IF cdRet[1] = "Ok"
       THEN /\ hdIdx' = hdIdx + 1
            /\ pc' = "hd_loop"
            /\ UNCHANGED <<hdRet, errLog>>
       ELSE /\ errLog' = Append(errLog, [site |-> "handle_database_copy",
                                         db |-> databases[hdIdx]])
            /\ HdReturn(Err(cdRet[2]))
            /\ hdIdx' = hdIdx
    /\ UNCHANGED <<catalog, srcCount, dest, caller, ccArgs, ccLocals, ret,
                   reads, inserts, calls, cdVars, hcVars, dbCatalogs,
                   databases, lastConfirm, ticked>>

HandleDatabaseCopy ==
    \/ HdSelectDatabases
    \/ HdDestinationDatabase
    \/ HdConfirm
    \/ HdResult

(***************************************************************************)
(* One run of handle_database_copy into an empty destination.              *)
(***************************************************************************)
InitHd ==
    /\ dbCatalogs \in [DbNames -> DistinctSeqs(Names, MaxUiColls)]
    /\ \A d \in DbNames : \A i \in 1..Len(dbCatalogs[d]) :
            dbCatalogs[d][i] \in DbCollections(d)
    /\ srcCount \in [Names -> 0..MaxUiDocs]
    /\ \A c \in Names :
        (\A d \in DbNames : \A i \in 1..Len(dbCatalogs[d]) : dbCatalogs[d][i] # c)
            => srcCount[c] = 0
    /\ catalog = <<>>
    /\ dest = [x \in Names |-> <<>>]
    /\ pc = "hd_start"
    /\ caller = "top"
    /\ ccArgs = [src |-> <<"a">>, dst |-> <<"a">>, limit |-> None]
    /\ cursorLen = 0
    /\ cursorPos = 0
    /\ count = 0
    /\ batch = <<>>
    /\ ret = <<>>
    /\ reads = 0
    /\ inserts = <<>>
    /\ calls = <<>>
    /\ errLog = <<>>
    /\ cdIdx = 0
    /\ cdRet = <<>>
    /\ selected = <<>>
    /\ hcIdx = 0
    /\ destColl = <<>>
    /\ hcLimit = None
    /\ hcRet = <<>>
    /\ lastCount = <<>>
    /\ databases = <<>>
    /\ hdIdx = 0
    /\ hdRet = <<>>
    /\ lastConfirm = <<>>
    /\ ticked = <<>>

(***************************************************************************)
(* main after select_copy_mode: one run of either handler.                 *)
(***************************************************************************)
InitMain == InitUi \/ InitHd

NextMain ==
    \/ HandleDatabaseCopy
    \/ CopyDatabase
    \/ HandleCollectionCopy
    \/ CopyCollection

SpecMain == InitMain /\ [][NextMain]_vars

(***************************************************************************)
(* What the claims speak of.                                               *)
(***************************************************************************)
Returned == pc = "cc_ret" /\ ret # <<>>
Succeeded == Returned /\ ret[1] = "Ok"
Failed == Returned /\ ret[1] = "Err"

CeilDiv(n, d) == (n + d - 1) \div d

\* The sizes of the insert_many calls issued against collection c.
InsertSizes(c) ==
    LET on == SelectSeq(inserts, LAMBDA r : r.coll = c)
    IN [i \in 1..Len(on) |-> on[i].size]

\* The number of documents of the batches whose insert into c succeeded.
FlushedCount(c) ==
    LET done == SelectSeq(inserts, LAMBDA r : r.coll = c /\ r.ok)
    IN SumSizes([i \in 1..Len(done) |-> done[i].size])

InsertFailed == inserts # <<>> /\ ~inserts[Len(inserts)].ok

IsPrefix(s, t) == Len(s) <= Len(t) /\ Take(t, Len(s)) = s

\* The count a copy_collection result carries besides an error, if any.
ErrorCount(r) == IF Len(r) >= 3 THEN Some(r[3]) ELSE None

(***************************************************************************)
(* C1.  With no limit and no failure, copy_collection over N documents     *)
(* issues exactly ceil(N / BATCH_SIZE) inserts, all of BATCH_SIZE          *)
(* documents except the last, which holds 1..BATCH_SIZE; no insert is      *)
(* ever issued with an empty batch; the sizes sum to N and the call        *)
(* returns Ok(N).                                                          *)
(***************************************************************************)
C1_BatchesCoverSource ==
    /\ \A i \in 1..Len(inserts) : inserts[i].size >= 1
    /\ (Succeeded /\ ccArgs.limit = None) =>
        LET n == srcCount[ccArgs.src]
            sizes == InsertSizes(ccArgs.dst)
        IN /\ Len(inserts) = CeilDiv(n, BATCH_SIZE)
           /\ Len(sizes) = Len(inserts)
           /\ \A i \in 1..Len(sizes) :
                /\ inserts[i].ok
                /\ i < Len(sizes) => sizes[i] = BATCH_SIZE
                /\ i = Len(sizes) => sizes[i] \in 1..BATCH_SIZE
           /\ SumSizes(sizes) = n
           /\ ret = Ok(n)

\* A copy without limit that succeeded with full batches and a smaller last one.
C1_Witness ==
    /\ Succeeded
    /\ ccArgs.limit = None
    /\ Len(inserts) >= 2
    /\ inserts[Len(inserts)].size < BATCH_SIZE

(***************************************************************************)
(* C2.  With a limit L, never more than L documents are read from the      *)
(* source cursor, and a copy that succeeds has read and inserted exactly   *)
(* min(L, N) documents (all N when no limit is given).                     *)
(***************************************************************************)
C2_LimitCapsReads ==
    LET n == srcCount[ccArgs.src]
        want == IF ccArgs.limit = None THEN n ELSE Min(ccArgs.limit[1], n)
    IN /\ reads <= want
       /\ Succeeded => (reads = want /\ Len(dest[ccArgs.dst]) = want)

(***************************************************************************)
(* C3.  With limit = Some(0) no document is read and no insert is issued,  *)
(* whatever the size of the source, and a call that returns Ok returns     *)
(* Ok(0).                                                                  *)
(***************************************************************************)
C3_LimitZeroCopiesNothing ==
    ccArgs.limit = Some(0) =>
        /\ reads = 0
        /\ inserts = <<>>
        /\ Succeeded => ret = Ok(0)

(***************************************************************************)
(* C4.  The count copy_collection tracks never exceeds the limit, when     *)
(* one is given, and never exceeds the number of documents whose insert    *)
(* has succeeded.                                                          *)
(***************************************************************************)
C4_CountBounded ==
    /\ ccArgs.limit # None => count <= ccArgs.limit[1]
    /\ count <= FlushedCount(ccArgs.dst)

(***************************************************************************)
(* C5.  A copy_collection that fails returns its error paired with the     *)
(* count of documents durably written: the total size of the batches       *)
(* whose insert succeeded.                                                 *)
(***************************************************************************)
C5_ErrorCarriesFlushedCount ==
    Failed => ErrorCount(ret) = Some(FlushedCount(ccArgs.dst))

(***************************************************************************)
(* C6.  A failed insert ends copy_collection at once with an error: after  *)
(* it no document is read, no insert is issued (no retry, no later         *)
(* batch), and no step ever removes a document from the destination.       *)
(***************************************************************************)
C6_InsertErrorAborts ==
    [][/\ InsertFailed' => (pc' = "cc_ret" /\ ret' # <<>> /\ ret'[1] = "Err")
       /\ InsertFailed => (reads' = reads /\ inserts' = inserts /\ dest' = dest)
       /\ \A c \in Names : IsPrefix(dest[c], dest'[c])]_vars

\* A copy that failed on a later batch, with an earlier batch in the destination.
C6_Witness ==
    /\ Failed
    /\ InsertFailed
    /\ Len(inserts) >= 2
    /\ Len(dest[ccArgs.dst]) >= BATCH_SIZE


(***************************************************************************)
(* C7.  When the copy of the collection at position i of the catalog fails *)
(* on an insert, copy_database returns failure with every earlier          *)
(* collection whole in the destination, collection i holding exactly the   *)
(* documents of its flushed batches, and every later collection absent     *)
(* and never passed to copy_collection.                                    *)
(***************************************************************************)
C7_FailFastLeavesFlushedOnly ==
    (pc = "cd_ret" /\ InsertFailed) =>
        /\ cdRet # <<>> /\ cdRet[1] = "Err"
        /\ \A j \in 1..Len(catalog) :
            LET c == catalog[j]
                all == SourceDocs(c, srcCount[c])
            IN /\ j < cdIdx => dest[c] = all
               /\ j = cdIdx => dest[c] = Take(all, FlushedCount(c))
               /\ j > cdIdx => /\ dest[c] = <<>>
                               /\ \A k \in 1..Len(calls) : calls[k].src # c

(***************************************************************************)
(* C8.  When a collection copy fails, the error copy_database returns to   *)
(* its caller names the collection that failed.                            *)
(***************************************************************************)
C8_ErrorNamesCollection ==
    (pc = "cd_ret" /\ ret # <<>> /\ ret[1] = "Err") =>
        /\ cdRet # <<>> /\ cdRet[1] = "Err"
        /\ \E k \in 1..Len(cdRet[2].context) : cdRet[2].context[k] = catalog[cdIdx]

(***************************************************************************)
(* C9.  copy_database calls copy_collection for the catalog's names in     *)
(* catalog order, once each, with the destination name equal to the        *)
(* source name and no limit; a call begins only when every earlier         *)
(* collection is whole in the destination with nothing left in a batch;    *)
(* and a copy_database that returns Ok has made one call per name.         *)
(***************************************************************************)
C9_OneCallPerCollectionInOrder ==
    /\ Len(calls) <= Len(catalog)
    /\ \A k \in 1..Len(calls) :
        /\ calls[k] = [src |-> catalog[k], dst |-> catalog[k], limit |-> None]
        /\ k < Len(calls) =>
             dest[catalog[k]] = SourceDocs(catalog[k], srcCount[catalog[k]])
    /\ pc = "cc_open" => batch = <<>>
    /\ (pc = "cd_ret" /\ cdRet = <<"Ok">>) =>
        /\ Len(calls) = Len(catalog)
        /\ \A k \in 1..Len(catalog) :
             dest[catalog[k]] = SourceDocs(catalog[k], srcCount[catalog[k]])

\* A database of several collections, one of more than a batch, copied whole.
C9_Witness ==
    /\ pc = "cd_ret"
    /\ cdRet = <<"Ok">>
    /\ Len(calls) >= 2
    /\ \E c \in Names : Len(dest[c]) > BATCH_SIZE

(***************************************************************************)
(* C10.  When the count estimate fails, the caller of get_collection_count *)
(* goes on with the count 0: neither select_collections nor get_copy_limit *)
(* returns an error because of it.                                         *)
(***************************************************************************)
C10_CountFailureYieldsZero ==
    (lastCount # <<>> /\ ~lastCount.ok) =>
        /\ lastCount.used = Some(0)
        /\ ~(pc = "hc_ret" /\ hcRet[1] = "Err" /\ hcRet[2].kind = "CountError")

(***************************************************************************)
(* C11.  A full copy (no limit) of a non-empty collection run again after  *)
(* it succeeded, against the destination it filled: the run never          *)
(* succeeds; the only insert it issues is its first batch, which fails on  *)
(* the duplicate key and writes nothing; no later batch is inserted; the   *)
(* destination keeps exactly the documents the first run left; and once    *)
(* that insert is issued the run returns an insert error.                  *)
(***************************************************************************)
C11_RerunFailsOnFirstBatch ==
    LET n == srcCount[ccArgs.src]
        first == CeilDiv(n, BATCH_SIZE)
    IN (Len(calls) >= 2 /\ ccArgs.limit = None /\ n >= 1) =>
        /\ dest[ccArgs.dst] = SourceDocs(ccArgs.src, n)
        /\ Len(inserts) <= first + 1
        /\ Len(inserts) = first + 1 =>
            /\ ~inserts[first + 1].ok
            /\ inserts[first + 1].written = 0
            /\ inserts[first + 1].size = Min(BATCH_SIZE, n)
            /\ Failed
            /\ ret[2].kind = "InsertError"
        /\ ~Succeeded

\* A second run over more than one batch that ended on the insert error.
C11_Witness ==
    /\ Len(calls) = 2
    /\ ccArgs.limit = None
    /\ srcCount[ccArgs.src] > BATCH_SIZE
    /\ Failed
    /\ ret[2].kind = "InsertError"

(***************************************************************************)
(* C12.  While copy_collection runs, the batch holds at most BATCH_SIZE    *)
(* documents; it holds BATCH_SIZE only at the point where the insert is    *)
(* about to be issued; and every successful insert after which the loop    *)
(* goes on leaves the batch empty.                                         *)
(***************************************************************************)
Running == pc \in {"cc_open", "cc_next", "cc_insert", "cc_final"}

BatchInBounds ==
    Running => /\ Len(batch) <= BATCH_SIZE
               /\ Len(batch) = BATCH_SIZE => pc = "cc_insert"
               /\ pc = "cc_insert" => Len(batch) = BATCH_SIZE

C12_BatchBoundedAndCleared ==
    [][/\ BatchInBounds
       /\ BatchInBounds'
       /\ (Len(inserts') > Len(inserts) /\ inserts'[Len(inserts')].ok /\ Running')
            => batch' = <<>>]_vars

\* The loop is back at the cursor with an empty batch after a full-batch insert.
C12_Witness ==
    /\ pc = "cc_next"
    /\ batch = <<>>
    /\ inserts # <<>>
    /\ inserts[Len(inserts)].ok
    /\ inserts[Len(inserts)].size = BATCH_SIZE

(***************************************************************************)
(* C13.  During one copy_collection into an empty destination, the         *)
(* destination holds a prefix of the documents the cursor yields, in       *)
(* cursor order, made of exactly what the inserts wrote; while the loop    *)
(* runs, destination and batch together are the documents read so far; on  *)
(* success the destination is the whole cursor sequence; after a cursor    *)
(* failure the documents read but not flushed are not in the destination.  *)
(***************************************************************************)
C13_DestinationIsCursorPrefix ==
    LET c == ccArgs.dst
        all == SourceDocs(ccArgs.src, srcCount[ccArgs.src])
    IN /\ IsPrefix(dest[c], all)
       /\ Len(dest[c]) = SumSizes([i \in 1..Len(inserts) |-> inserts[i].written])
       /\ pc \in {"cc_next", "cc_insert", "cc_final"} =>
            dest[c] \o batch = Take(all, cursorPos)
       /\ Succeeded => dest[c] = Take(all, cursorLen)
       /\ (Failed /\ ret[2].kind = "CursorError") =>
            /\ \A i \in 1..Len(inserts) : inserts[i].ok
            /\ dest[c] = Take(all, cursorPos - Len(batch))

\* A cursor failure with a flushed batch behind it and documents still in the batch.
C13_Witness ==
    /\ Failed
    /\ ret[2].kind = "CursorError"
    /\ batch # <<>>
    /\ Len(dest[ccArgs.dst]) >= BATCH_SIZE

(***************************************************************************)
(* C14.  In handle_database_copy and handle_collection_copy: a declined    *)
(* confirmation makes no copy step (no call, no read, no insert, no change *)
(* of the destination) and moves on to the next item; a copy runs only     *)
(* while the last confirmation is an accepted one for the item being       *)
(* processed, and a call made names that item; a failed copy ends the run  *)
(* with that error at that item; and nothing is done after the run has     *)
(* returned.                                                               *)
(***************************************************************************)
InCopy ==
    pc \in {"cd_list", "cd_loop", "cd_ret",
            "cc_open", "cc_next", "cc_insert", "cc_final", "cc_ret"}

CopyStep ==
    \/ calls' # calls
    \/ reads' # reads
    \/ inserts' # inserts
    \/ dest' # dest

CurrentItem ==
    IF lastConfirm.by = "handle_collection_copy" THEN hcIdx ELSE hdIdx

Accepted ==
    /\ lastConfirm # <<>>
    /\ lastConfirm.answer = "yes"
    /\ lastConfirm.item = CurrentItem

C14_ConfirmGatesCopy ==
    [][/\ (pc = "hc_confirm" /\ lastConfirm'.answer = "no") =>
            (~CopyStep /\ pc' = "hc_loop" /\ hcIdx' = hcIdx + 1)
       /\ (pc = "hd_confirm" /\ lastConfirm'.answer = "no") =>
            (~CopyStep /\ pc' = "hd_loop" /\ hdIdx' = hdIdx + 1)
       /\ InCopy' => Accepted'
       /\ CopyStep => (InCopy' /\ Accepted')
       /\ (calls' # calls /\ lastConfirm'.by = "handle_collection_copy") =>
            calls'[Len(calls')].src = selected[hcIdx]
       /\ (calls' # calls /\ lastConfirm'.by = "handle_database_copy") =>
            \E i \in 1..Len(dbCatalogs[databases[hdIdx]]) :
                calls'[Len(calls')].src = dbCatalogs[databases[hdIdx]][i]
       /\ (pc = "cc_ret" /\ caller = "handle_collection_copy" /\ ret[1] = "Err") =>
            (pc' = "hc_ret" /\ hcRet' = ret /\ hcIdx' = hcIdx)
       /\ (pc = "cd_ret" /\ cdRet[1] = "Err") =>
            (pc' = "hd_ret" /\ hdRet' = cdRet /\ hdIdx' = hdIdx)
       /\ pc \in {"hc_ret", "hd_ret"} => FALSE]_vars

\* The first of two collections was declined, the second accepted, and its copy failed.
C14_Witness ==
    /\ pc = "hc_ret"
    /\ hcRet # <<>> /\ hcRet[1] = "Err"
    /\ ret # <<>> /\ ret[1] = "Err"
    /\ hcIdx = 2
    /\ Len(calls) = 1
    /\ calls[1].src = selected[2]

(***************************************************************************)
(* C15.  The names select_collections returns are the catalog names of     *)
(* the labels the user ticked, in order, and a copy handle_collection_copy *)
(* starts reads the collection ticked at that position.                    *)
(***************************************************************************)
C15_SelectedNamesRoundTrip ==
    /\ selected = ticked
    /\ (pc \in {"cc_open", "cc_next", "cc_insert", "cc_final", "cc_ret"}
          /\ caller = "handle_collection_copy") => ccArgs.src = ticked[hcIdx]

=============================================================================
